---- MODULE Spec2Model ----
(***************************************************************************)
(* Model of streamlit_app.py: the preprocessing of the track table         *)
(* (load_and_preprocess_data) and the four summary views computed from     *)
(* the processed frame (get_top_artists, get_popularity_by_genre,          *)
(* get_correlation_matrix and the yearly popularity_by_year group-by).     *)
(*                                                                         *)
(* Text is a sequence of symbols.  A symbol is either one of the two       *)
(* delimiter characters "," and " " or a whole word.  A nullable value is  *)
(* a record: NaN is [na |-> TRUE], a present value x is Val(x).  A float   *)
(* mean is kept exact as the reduced fraction <<numerator, denominator>>.  *)
(***************************************************************************)
EXTENDS Integers, Sequences, FiniteSets, TLC

\* ---------------------------------------------------------------- bounds
MaxRows == 2
MaxN == 2

\* ------------------------------------------------------- nullable values
NaN == [na |-> TRUE]
Val(x) == [na |-> FALSE, v |-> x]

\* ------------------------------------------------------------- utilities
Min(S) == CHOOSE x \in S : \A y \in S : x <= y
Max(S) == CHOOSE x \in S : \A y \in S : y <= x
Abs(x) == IF x < 0 THEN -x ELSE x
Sign(x) == IF x < 0 THEN -1 ELSE IF x > 0 THEN 1 ELSE 0
Remove(s, i) == SubSeq(s, 1, i - 1) \o SubSeq(s, i + 1, Len(s))

RECURSIVE Gcd(_, _)
Gcd(a, b) == IF b = 0 THEN a ELSE Gcd(b, a % b)

RECURSIVE SumSeq(_)
SumSeq(s) == IF s = <<>> THEN 0 ELSE Head(s) + SumSeq(Tail(s))

RECURSIVE Concat(_)
Concat(ss) == IF ss = <<>> THEN <<>> ELSE Head(ss) \o Concat(Tail(ss))

\* ------------------------------------------------------- text and order
\* The symbols of the model in code-point order of their first character
\* (Python compares str values by code point).
SymOrder == <<" ", ",", "A", "B", "C", "NA", "Pop", "Rock", "unknown">>
SymRank(c) == CHOOSE i \in 1..Len(SymOrder) : SymOrder[i] = c

RECURSIVE TextLess(_, _)
TextLess(a, b) ==
    IF b = <<>> THEN FALSE
    ELSE IF a = <<>> THEN TRUE
    ELSE IF Head(a) = Head(b) THEN TextLess(Tail(a), Tail(b))
    ELSE SymRank(Head(a)) < SymRank(Head(b))

\* the order of group keys: str keys by code point, release years as numbers
KeyLess(kind, a, b) == IF kind = "int" THEN a < b ELSE TextLess(a, b)

\* ------------------------------------------------------------ pd.read_csv
\* read_csv turns an empty field and the default NA strings into NaN; "NA"
\* stands for that list of strings here.
NaValues == {<<>>, <<"NA">>}
ReadCell(text) == IF text \in NaValues THEN NaN ELSE Val(text)

read_csv(file) ==
    [i \in 1..Len(file) |->
        [index |-> i - 1,
         artist_name |-> ReadCell(file[i].artist_name),
         artist_genres |-> ReadCell(file[i].artist_genres),
         album_release_date |-> ReadCell(file[i].album_release_date),
         track_popularity |-> file[i].track_popularity,
         artist_popularity |-> file[i].artist_popularity,
         artist_followers |-> file[i].artist_followers,
         track_duration_min |-> file[i].track_duration_min,
         album_total_tracks |-> file[i].album_total_tracks]]

\* ----------------------------------------------- load_and_preprocess_data
\* dropna without subset=: a row with any missing field is dropped
IsRetainedAnyColumn(r) ==
    ~r.artist_name.na /\ ~r.artist_genres.na /\ ~r.album_release_date.na

\* df.dropna(subset=['artist_name'], inplace=True)
IsRetained(r) == ~r.artist_name.na
dropna(df) == SelectSeq(df, IsRetained)

\* df['artist_genres'].fillna('unknown')
fillna(cell) == IF cell.na THEN Val(<<"unknown">>) ELSE cell

\* pd.to_datetime: the date strings it can parse, with the timestamp of each.
Timestamps ==
    (<<"2019-05-01">> :> [year |-> 2019, month |-> 5, day |-> 1]) @@
    (<<"2020-01-15">> :> [year |-> 2020, month |-> 1, day |-> 15]) @@
    (<<"2021-11-30">> :> [year |-> 2021, month |-> 11, day |-> 30])
Parseable(cell) == cell.na \/ cell.v \in DOMAIN Timestamps
\* NaN becomes NaT; errors='raise' is the default for anything else unparseable.
to_datetime(cell) == IF cell.na THEN NaN ELSE Val(Timestamps[cell.v])

\* pd.cut(x, bins=bins, labels=labels, right=False)
bins == <<0, 25, 50, 75, 100>>
labels == <<"Low", "Medium", "High", "Very High">>
InBin(x, i) == bins[i] <= x /\ x < bins[i + 1]
cut(x) ==
    IF \E i \in 1..Len(labels) : InBin(x, i)
    THEN Val(labels[CHOOSE i \in 1..Len(labels) : InBin(x, i)])
    ELSE NaN

\* .dt.year
dt_year(cell) == IF cell.na THEN NaN ELSE Val(cell.v.year)

\* to_datetime moved above dropna: every row of the file is parsed
RowsToParseBeforeDrop(df) == df

\* The rows to parse are those left by dropna: line 11 runs before line 15.
RowsToParse(df) == dropna(df)

DeriveRow(r) ==
    LET date == to_datetime(r.album_release_date)
    IN  [index |-> r.index,
         artist_name |-> r.artist_name,
         artist_genres |-> fillna(r.artist_genres),
         album_release_date |-> date,
         track_popularity |-> r.track_popularity,
         artist_popularity |-> r.artist_popularity,
         artist_followers |-> r.artist_followers,
         track_duration_min |-> r.track_duration_min,
         album_total_tracks |-> r.album_total_tracks,
         duration_in_minutes |-> r.track_duration_min,
         popularity_category |-> cut(r.track_popularity),
         release_year |-> dt_year(date)]

\* The outcome of load_and_preprocess_data(file_path): the frame it returns,
\* or the exception that leaves it (pd.to_datetime raises ValueError).
load_and_preprocess_data(file) ==
    LET df == read_csv(file)
        kept == RowsToParse(df)
    IN  IF \E i \in 1..Len(kept) : ~Parseable(kept[i].album_release_date)
        THEN [raised |-> "ValueError", df |-> <<>>]
        ELSE [raised |-> "none",
              df |-> [i \in 1..Len(dropna(df)) |-> DeriveRow(dropna(df)[i])]]

\* ------------------------------------------------- groupby / mean / sort
\* The float mean of integers, exact: sum / count in lowest terms.
Mean(sum, count) ==
    LET g == Gcd(Abs(sum), count) IN <<sum \div g, count \div g>>
MeanLess(a, b) == a[1] * b[2] < b[1] * a[2]

\* groupby(key) keeps the rows whose key is not NaN (dropna=True) and lists
\* the groups in ascending key order (sort=True).
SortKeys(S, kind) ==
    [i \in 1..Cardinality(S) |->
        CHOOSE x \in S : Cardinality({y \in S : KeyLess(kind, y, x)}) = i - 1]

GroupKeys(rows, kind) ==
    SortKeys({rows[i].key.v : i \in {j \in 1..Len(rows) : ~rows[j].key.na}}, kind)

GroupOf(rows, k) ==
    SelectSeq(rows, LAMBDA r : ~r.key.na /\ r.key.v = k)

\* groupby(key)[x].mean(): a Series indexed by the group keys.
groupby_mean(rows, kind) ==
    LET keys == GroupKeys(rows, kind)
    IN  [i \in 1..Len(keys) |->
            LET g == GroupOf(rows, keys[i])
            IN  [key |-> keys[i],
                 mean |-> Mean(SumSeq([j \in 1..Len(g) |-> g[j].x]), Len(g))]]

\* Series.sort_values(ascending=False), kind='quicksort': the result is in
\* non-increasing order of value; quicksort is not stable, so the order of
\* equal values is whatever the numpy build produces.  ties = "stable" keeps
\* equal values in index order, ties = "reversed" reverses them.
FirstPick(s, ties) ==
    LET top == {i \in 1..Len(s) : \A j \in 1..Len(s) : ~MeanLess(s[i].mean, s[j].mean)}
    IN  IF ties = "stable" THEN Min(top) ELSE Max(top)

\* ascending=False left out: the smallest value comes first
RECURSIVE sort_values_ascending(_, _)
sort_values_ascending(s, ties) ==
    IF s = <<>> THEN <<>>
    ELSE LET low == {i \in 1..Len(s) :
                        \A j \in 1..Len(s) : ~MeanLess(s[j].mean, s[i].mean)}
             i == IF ties = "stable" THEN Min(low) ELSE Max(low)
         IN  <<s[i]>> \o sort_values_ascending(Remove(s, i), ties)

RECURSIVE sort_values(_, _)
sort_values(s, ties) ==
    IF s = <<>> THEN <<>>
    ELSE LET i == FirstPick(s, ties)
         IN  <<s[i]>> \o sort_values(Remove(s, i), ties)

\* Series.head(n), n >= 0
head(s, n) == SubSeq(s, 1, IF n < Len(s) THEN n ELSE Len(s))

\* --------------------------------------------------------- get_top_artists
ArtistRowsOf(df) ==
    [i \in 1..Len(df) |-> [key |-> df[i].artist_name, x |-> df[i].track_popularity]]

get_top_artists(df, n, ties) ==
    head(sort_values(groupby_mean(ArtistRowsOf(df), "str"), ties), n)

\* ------------------------------------------------- get_popularity_by_genre
\* str.split(','): the space after each comma stays in the next piece
RECURSIVE SplitOnComma(_, _)
SplitOnComma(text, piece) ==
    IF text = <<>> THEN <<piece>>
    ELSE IF text[1] = ","
         THEN <<piece>> \o SplitOnComma(Tail(text), <<>>)
         ELSE SplitOnComma(Tail(text), Append(piece, Head(text)))

\* str.split(', '): the pieces of the text between occurrences of ", ".
RECURSIVE SplitFrom(_, _)
SplitFrom(text, piece) ==
    IF text = <<>> THEN <<piece>>
    ELSE IF Len(text) >= 2 /\ text[1] = "," /\ text[2] = " "
         THEN <<piece>> \o SplitFrom(SubSeq(text, 3, Len(text)), <<>>)
         ELSE SplitFrom(Tail(text), Append(piece, Head(text)))

str_split(cell) == IF cell.na THEN NaN ELSE Val(SplitFrom(cell.v, <<>>))

\* explode: one row per element of the list, NaN stays one row with NaN.
ExplodeRow(r) ==
    LET parts == str_split(r.artist_genres)
    IN  IF parts.na THEN <<[key |-> NaN, x |-> r.track_popularity]>>
        ELSE [j \in 1..Len(parts.v) |->
                 [key |-> Val(parts.v[j]), x |-> r.track_popularity]]

df_genres_exploded(df) == Concat([i \in 1..Len(df) |-> ExplodeRow(df[i])])

get_popularity_by_genre(df, ties) ==
    sort_values(groupby_mean(df_genres_exploded(df), "str"), ties)

\* df['artist_genres'] = ... in place of df.assign: the caller's column
\* becomes the split lists
FrameAfterGenresInPlace(df) ==
    [i \in 1..Len(df) |-> [df[i] EXCEPT !.artist_genres = str_split(@)]]

\* df.assign(...) builds a new frame: the frame passed in is left as it was.
FrameAfterGenres(df) == df

\* -------------------------------------------------- get_correlation_matrix
numerical_cols ==
    <<"track_popularity", "artist_popularity", "artist_followers",
      "track_duration_min", "album_total_tracks">>

Column(df, c) == [i \in 1..Len(df) |-> df[i][c]]
Dot(x, y) == SumSeq([i \in 1..Len(x) |-> x[i] * y[i]])

\* Pearson r of two columns, exact: r = c / sqrt(vx * vy) is kept as the
\* reduced fraction sign(c) * c^2 / (vx * vy); NaN when a column has no
\* variance or the frame has no row (0 / 0 in the float computation).
Pearson(x, y) ==
    LET n == Len(x)
        c == n * Dot(x, y) - SumSeq(x) * SumSeq(y)
        vx == n * Dot(x, x) - SumSeq(x) * SumSeq(x)
        vy == n * Dot(y, y) - SumSeq(y) * SumSeq(y)
    IN  IF vx * vy = 0 THEN NaN
        ELSE Val(Mean(Sign(c) * c * c, vx * vy))

get_correlation_matrix(df) ==
    [a \in 1..Len(numerical_cols), b \in 1..Len(numerical_cols) |->
        Pearson(Column(df, numerical_cols[a]), Column(df, numerical_cols[b]))]

\* ------------------------------------------------------ popularity_by_year
YearRowsOf(df) ==
    [i \in 1..Len(df) |-> [key |-> df[i].release_year, x |-> df[i].track_popularity]]

\* .sort_values(ascending=False) added as in the other views
PopularityByYearSortedByValue(df) ==
    LET s == sort_values(groupby_mean(YearRowsOf(df), "int"), "stable")
    IN  [i \in 1..Len(s) |-> [release_year |-> s[i].key, track_popularity |-> s[i].mean]]

\* groupby('release_year')['track_popularity'].mean().reset_index()
PopularityByYear(df) ==
    LET s == groupby_mean(YearRowsOf(df), "int")
    IN  [i \in 1..Len(s) |-> [release_year |-> s[i].key, track_popularity |-> s[i].mean]]

\* ------------------------------------------------------------ the inputs
\* The rows of the CSV file, as text fields and numbers.  Each file is drawn
\* from one family of rows, which varies the columns one stage reads and
\* fixes the others.  The file has at least one row, so read_csv infers the
\* numeric column types from data.
Row(artist, genres, popularity, date, p) ==
    [artist_name |-> artist, artist_genres |-> genres,
     track_popularity |-> popularity, album_release_date |-> date,
     artist_popularity |-> p[1], artist_followers |-> p[2],
     track_duration_min |-> p[3], album_total_tracks |-> p[4]]

PlainProfile == <<50, 10, 3, 10>>
Pop == <<"Pop">>
Rock == <<"Rock">>
PopRock == <<"Pop", ",", " ", "Rock">>
GoodDate == <<"2020-01-15">>
BadDate == <<"not-a-date">>

CleanRows ==
    {Row(a, Pop, 40, d, PlainProfile) :
        a \in {<<>>, <<"NA">>, <<"A">>}, d \in {GoodDate, BadDate, <<>>}}
BinRows ==
    {Row(<<"A">>, Pop, x, GoodDate, PlainProfile) :
        x \in {-1, 0, 24, 25, 49, 50, 74, 75, 99, 100, 101}}
ArtistRows ==
    {Row(a, Pop, x, GoodDate, PlainProfile) :
        a \in {<<"A">>, <<"B">>, <<"C">>}, x \in {40, 60, 80}}
    \cup {Row(<<>>, Pop, 60, GoodDate, PlainProfile)}
GenreRows ==
    {Row(a, g, x, GoodDate, PlainProfile) :
        a \in {<<"A">>, <<"B">>}, g \in {Pop, PopRock}, x \in {40, 80}}
    \cup {Row(<<"A">>, <<>>, 80, GoodDate, PlainProfile),
          Row(<<"B">>, Rock, 40, GoodDate, PlainProfile)}
YearRows ==
    {Row(<<"A">>, Pop, x, d, PlainProfile) :
        d \in (DOMAIN Timestamps) \cup {<<>>}, x \in {40, 80}}
MixedRows ==
    {Row(<<"A">>, PopRock, 80, <<"2019-05-01">>, <<50, 10, 3, 10>>),
     Row(<<"B">>, Pop, 40, GoodDate, <<70, 50, 4, 10>>),
     Row(<<"A">>, <<>>, 40, <<"2021-11-30">>, <<60, 2, 3, 12>>),
     Row(<<"B">>, Rock, 80, <<>>, <<60, 2, 4, 12>>),
     Row(<<>>, Pop, 60, GoodDate, <<50, 10, 3, 10>>)}

Files(F) == UNION {[1..k -> F] : k \in 1..MaxRows}

\* -------------------------------------------------------------- the state
VARIABLES
    file,                   \* the rows of the CSV file at file_path
    quicksort_ties,         \* how this build's quicksort orders equal values
    pc,                     \* "start", "ready" (frame loaded) or "failed"
    raised,                 \* the exception that ended the run, or "none"
    processed_df,           \* the frame load_and_preprocess_data returned
    computed,               \* the views computed so far
    n_arg,                  \* the n of the last get_top_artists call
    top_artists_data,
    genre_popularity,       \* what get_popularity_by_genre returned
    genre_popularity_data,  \* its .head(10)
    correlation_data,
    popularity_by_year

vars ==
    <<file, quicksort_ties, pc, raised, processed_df, computed, n_arg,
      top_artists_data, genre_popularity, genre_popularity_data,
      correlation_data, popularity_by_year>>

views == <<n_arg, top_artists_data, genre_popularity, genre_popularity_data,
           correlation_data, popularity_by_year>>

\* n=10 in the script's call of get_top_artists, .head(10) on the genres
TopArtistsN == 10
TopGenresN == 10

InitOver(F) ==
    /\ file \in Files(F)
    /\ quicksort_ties \in {"stable", "reversed"}
    /\ pc = "start"
    /\ raised = "none"
    /\ processed_df = <<>>
    /\ computed = {}
    /\ n_arg = 0
    /\ top_artists_data = <<>>
    /\ genre_popularity = <<>>
    /\ genre_popularity_data = <<>>
    /\ correlation_data = <<>>
    /\ popularity_by_year = <<>>

Init == InitOver(MixedRows)
InitClean == InitOver(CleanRows)
InitBins == InitOver(BinRows)
InitArtists == InitOver(ArtistRows)
InitGenres == InitOver(GenreRows)
InitYears == InitOver(YearRows)

\* processed_df = load_and_preprocess_data(file_path)
Load ==
    /\ pc = "start"
    /\ LET r == load_and_preprocess_data(file)
       IN  /\ pc' = IF r.raised = "none" THEN "ready" ELSE "failed"
           /\ raised' = r.raised
           /\ processed_df' = r.df
    /\ UNCHANGED <<file, quicksort_ties, computed, views>>

\* top_artists_data = get_top_artists(processed_df, n)
TopArtists(n) ==
    /\ pc = "ready"
    /\ top_artists_data' = get_top_artists(processed_df, n, quicksort_ties)
    /\ n_arg' = n
    /\ computed' = computed \cup {"top_artists"}
    /\ UNCHANGED <<file, quicksort_ties, pc, raised, processed_df,
                   genre_popularity, genre_popularity_data, correlation_data,
                   popularity_by_year>>

\* genre_popularity_data = get_popularity_by_genre(processed_df).head(10)
GenrePopularity ==
    /\ pc = "ready"
    /\ genre_popularity' = get_popularity_by_genre(processed_df, quicksort_ties)
    /\ genre_popularity_data' =
           head(get_popularity_by_genre(processed_df, quicksort_ties), TopGenresN)
    /\ processed_df' = FrameAfterGenres(processed_df)
    /\ computed' = computed \cup {"genre_popularity"}
    /\ UNCHANGED <<file, quicksort_ties, pc, raised, n_arg, top_artists_data,
                   correlation_data, popularity_by_year>>

\* correlation_data = get_correlation_matrix(processed_df)
Correlation ==
    /\ pc = "ready"
    /\ correlation_data' = get_correlation_matrix(processed_df)
    /\ computed' = computed \cup {"correlation"}
    /\ UNCHANGED <<file, quicksort_ties, pc, raised, processed_df, n_arg,
                   top_artists_data, genre_popularity, genre_popularity_data,
                   popularity_by_year>>

\* popularity_by_year = processed_df.groupby('release_year')[...].mean()...
YearTrend ==
    /\ pc = "ready"
    /\ popularity_by_year' = PopularityByYear(processed_df)
    /\ computed' = computed \cup {"popularity_by_year"}
    /\ UNCHANGED <<file, quicksort_ties, pc, raised, processed_df, n_arg,
                   top_artists_data, genre_popularity, genre_popularity_data,
                   correlation_data>>

Next ==
    \/ Load
    \/ \E n \in (1..MaxN) \cup {TopArtistsN} : TopArtists(n)
    \/ GenrePopularity
    \/ Correlation
    \/ YearTrend

Spec == Init /\ [][Next]_vars
SpecClean == InitClean /\ [][Next]_vars
SpecBins == InitBins /\ [][Next]_vars
SpecArtists == InitArtists /\ [][Next]_vars
SpecGenres == InitGenres /\ [][Next]_vars
SpecYears == InitYears /\ [][Next]_vars

\* ================================================================ claims
\* A field of the file that the loader reads as missing: empty, or an NA
\* marker.
MissingText(text) == text = <<>> \/ text = <<"NA">>
NameMissing(r) == MissingText(r.artist_name)
RetainedInFile(i) == i \in 1..Len(file) /\ ~NameMissing(file[i])
Loaded == pc # "start"

\* C1: every retained record whose track_popularity p is in [0,100] has the
\* category of its bin: Low for 0 <= p < 25, Medium for 25 <= p < 50, High
\* for 50 <= p < 75, Very High for 75 <= p <= 100 (so 100 is Very High).
ClaimedCategory(p) ==
    IF p < 25 THEN "Low"
    ELSE IF p < 50 THEN "Medium"
    ELSE IF p < 75 THEN "High" ELSE "Very High"
C1_CategoryTotalOnValidRange ==
    pc = "ready" =>
        \A i \in 1..Len(processed_df) :
            LET p == processed_df[i].track_popularity
            IN  (0 <= p /\ p <= 100) =>
                    processed_df[i].popularity_category = Val(ClaimedCategory(p))

\* C2: when a retained record has a track_popularity below 0 or above 100,
\* preprocessing fails with OutOfRangeError and returns no record set.
C2_OutOfRangeFails ==
    (Loaded /\ \E i \in 1..Len(file) :
                   /\ RetainedInFile(i)
                   /\ (file[i].track_popularity < 0 \/ file[i].track_popularity > 100))
        => (pc = "failed" /\ raised = "OutOfRangeError" /\ processed_df = <<>>)

\* C3: cleaning removes exactly the records whose artist name is missing or
\* empty: the processed frame holds the other records of the file, each once
\* and in file order, every one with a non-empty artist name; its length is
\* the file's length minus the number of such records; no view drops a
\* record later; and a missing name is never the cause of a failure.
C3_CleaningDropsExactlyMissingNames ==
    /\ pc = "ready" =>
        /\ Len(processed_df) =
               Len(file) - Cardinality({i \in 1..Len(file) : NameMissing(file[i])})
        /\ \A i \in 1..Len(processed_df) :
               /\ RetainedInFile(processed_df[i].index + 1)
               /\ ~processed_df[i].artist_name.na
               /\ processed_df[i].artist_name.v # <<>>
               /\ processed_df[i].artist_name.v =
                      file[processed_df[i].index + 1].artist_name
               /\ processed_df[i].track_popularity =
                      file[processed_df[i].index + 1].track_popularity
        /\ \A i, j \in 1..Len(processed_df) :
               i < j => processed_df[i].index < processed_df[j].index
    /\ pc = "failed" =>
        \E i \in 1..Len(file) :
            RetainedInFile(i) /\ file[i].album_release_date = BadDate

C3_Witness ==
    /\ pc = "ready"
    /\ Len(processed_df) = 1
    /\ Len(file) = 2
    /\ computed # {}

\* C4: cleaning is all-or-nothing on release dates: when a retained record
\* has an unparseable release date the whole operation fails (pandas raises
\* ValueError, the malformed-date failure) and no frame is returned; when
\* every retained record has a good date, an unparseable date on a record
\* dropped for its missing artist name does not make it fail.
C4_MalformedDateFailsWholeLoad ==
    Loaded =>
        /\ (\E i \in 1..Len(file) :
                RetainedInFile(i) /\ file[i].album_release_date = BadDate)
            => (pc = "failed" /\ raised = "ValueError" /\ processed_df = <<>>
                /\ computed = {})
        /\ (\A i \in 1..Len(file) :
                RetainedInFile(i) => file[i].album_release_date = GoodDate)
            => (pc = "ready" /\ raised = "none")

C4_Witness ==
    /\ pc = "failed"
    /\ \E i, j \in 1..Len(file) :
           /\ RetainedInFile(i) /\ file[i].album_release_date = BadDate
           /\ RetainedInFile(j) /\ file[j].album_release_date = GoodDate

\* C8: correlationMatrix on an empty record set fails with
\* InsufficientDataError and returns no matrix, while the other three views
\* return an empty result on it.
C8_EmptyCorrelationFails ==
    /\ ("correlation" \in computed /\ processed_df = <<>>) =>
           raised = "InsufficientDataError"
    /\ ("top_artists" \in computed /\ processed_df = <<>>) =>
           top_artists_data = <<>>
    /\ ("genre_popularity" \in computed /\ processed_df = <<>>) =>
           genre_popularity = <<>>
    /\ ("popularity_by_year" \in computed /\ processed_df = <<>>) =>
           popularity_by_year = <<>>

\* ------------------------------------------------- means, stated directly
\* m is the arithmetic mean of `count` values that add up to `sum`
IsMeanOf(m, sum, count) == count > 0 /\ m[2] > 0 /\ m[1] * count = sum * m[2]
Positions(df) == 1..Len(df)
SumOver(df, w) == SumSeq([i \in 1..Len(df) |-> w[i]])

\* C6: get_top_artists(df, n), n >= 1, returns min(n, number of distinct
\* artists) entries, no artist twice, each with the mean track_popularity of
\* that artist, in non-increasing order of mean; no artist left out has a
\* strictly higher mean than one returned; with n at least the number of
\* artists all are returned; an empty frame gives an empty result.
Artists == {processed_df[i].artist_name.v : i \in Positions(processed_df)}
ArtistSum(a) ==
    SumOver(processed_df,
            [i \in Positions(processed_df) |->
                IF processed_df[i].artist_name.v = a
                THEN processed_df[i].track_popularity ELSE 0])
ArtistCount(a) ==
    Cardinality({i \in Positions(processed_df) : processed_df[i].artist_name.v = a})
C6_TopArtists ==
    "top_artists" \in computed =>
        LET res == top_artists_data
            keys == {res[i].key : i \in 1..Len(res)}
        IN  /\ n_arg >= 1
            /\ Len(res) = IF n_arg < Cardinality(Artists)
                          THEN n_arg ELSE Cardinality(Artists)
            /\ keys \subseteq Artists
            /\ \A i \in 1..Len(res) :
                   IsMeanOf(res[i].mean, ArtistSum(res[i].key), ArtistCount(res[i].key))
            /\ \A i, j \in 1..Len(res) :
                   i < j => /\ res[i].key # res[j].key
                            /\ ~MeanLess(res[i].mean, res[j].mean)
            /\ \A a \in Artists \ keys : \A b \in keys :
                   ArtistSum(a) * ArtistCount(b) <= ArtistSum(b) * ArtistCount(a)
            /\ n_arg >= Cardinality(Artists) => keys = Artists
            /\ processed_df = <<>> => res = <<>>

C6_Witness ==
    /\ "top_artists" \in computed
    /\ n_arg = 1
    /\ Cardinality(Artists) = 2
    /\ \E a \in Artists : \A i \in 1..Len(top_artists_data) :
           /\ a # top_artists_data[i].key
           /\ ArtistSum(a) * top_artists_data[i].mean[2]
                  < top_artists_data[i].mean[1] * ArtistCount(a)

\* C10: ties between groups of equal mean are broken by group name, in
\* lexicographic order, also across the cut at n, so that the output is a
\* function of the multiset of records: the same rows in another order give
\* the same output.
TiesByName(res) ==
    \A i, j \in 1..Len(res) :
        (i < j /\ res[i].mean = res[j].mean) => TextLess(res[i].key, res[j].key)
Reordered(f) ==
    {[i \in 1..Len(f) |-> f[q[i]]] :
        q \in {r \in [1..Len(f) -> 1..Len(f)] :
                  \A i, j \in 1..Len(f) : i # j => r[i] # r[j]}}
C10_TiesLexicographic ==
    /\ "top_artists" \in computed =>
        /\ TiesByName(top_artists_data)
        /\ \A a \in Artists \ {top_artists_data[i].key : i \in 1..Len(top_artists_data)} :
               \A i \in 1..Len(top_artists_data) :
                   IsMeanOf(top_artists_data[i].mean, ArtistSum(a), ArtistCount(a))
                       => TextLess(top_artists_data[i].key, a)
        /\ \A g \in Reordered(file) :
               get_top_artists(load_and_preprocess_data(g).df, n_arg, quicksort_ties)
                   = top_artists_data
    /\ "genre_popularity" \in computed =>
        /\ TiesByName(genre_popularity)
        /\ \A g \in Reordered(file) :
               get_popularity_by_genre(load_and_preprocess_data(g).df, quicksort_ties)
                   = genre_popularity

\* C5: get_popularity_by_genre gives one entry per genre token listed by any
\* record, with the mean of track_popularity over all (record, token) pairs
\* of that token, a record that lists k genres counting in k groups, in
\* non-increasing order of mean; (A, 80, "Pop, Rock") and (B, 40, "Pop")
\* give [Rock 80.0, Pop 60.0].
Listed(cell) ==
    CASE cell.v = Pop -> <<Pop>>
      [] cell.v = Rock -> <<Rock>>
      [] cell.v = PopRock -> <<Pop, Rock>>
      [] cell.v = <<"unknown">> -> << <<"unknown">> >>
Times(list, g) == Cardinality({j \in 1..Len(list) : list[j] = g})
ListedGenres ==
    UNION {{Listed(processed_df[i].artist_genres)[j] :
               j \in 1..Len(Listed(processed_df[i].artist_genres))} :
           i \in Positions(processed_df)}
GenreSum(g) ==
    SumOver(processed_df,
            [i \in Positions(processed_df) |->
                processed_df[i].track_popularity
                    * Times(Listed(processed_df[i].artist_genres), g)])
GenreCount(g) ==
    SumOver(processed_df,
            [i \in Positions(processed_df) |->
                Times(Listed(processed_df[i].artist_genres), g)])
IsExample ==
    /\ Len(processed_df) = 2
    /\ {<<processed_df[i].artist_name.v, processed_df[i].track_popularity,
          processed_df[i].artist_genres.v>> : i \in 1..2}
           = {<< <<"A">>, 80, PopRock>>, << <<"B">>, 40, Pop>>}
C5_GenrePopularity ==
    "genre_popularity" \in computed =>
        LET res == genre_popularity
        IN  /\ {res[i].key : i \in 1..Len(res)} = ListedGenres
            /\ Len(res) = Cardinality(ListedGenres)
            /\ \A i \in 1..Len(res) :
                   IsMeanOf(res[i].mean, GenreSum(res[i].key), GenreCount(res[i].key))
            /\ \A i, j \in 1..Len(res) :
                   i < j => ~MeanLess(res[i].mean, res[j].mean)
            /\ \A i \in Positions(processed_df) :
                   Cardinality({k \in 1..Len(res) :
                       Times(Listed(processed_df[i].artist_genres), res[k].key) > 0})
                       = Len(Listed(processed_df[i].artist_genres))
            /\ IsExample =>
                   res = <<[key |-> Rock, mean |-> <<80, 1>>],
                           [key |-> Pop, mean |-> <<60, 1>>]>>

C5_Witness == "genre_popularity" \in computed /\ IsExample

\* C7: the yearly trend has one entry per distinct release_year of the
\* frame, with the mean track_popularity of that year's records, in strictly
\* ascending order of year whatever the means are.
Years ==
    {processed_df[i].release_year.v :
        i \in {j \in Positions(processed_df) : ~processed_df[j].release_year.na}}
InYear(i, y) == processed_df[i].release_year = Val(y)
YearSum(y) ==
    SumOver(processed_df,
            [i \in Positions(processed_df) |->
                IF InYear(i, y) THEN processed_df[i].track_popularity ELSE 0])
YearCount(y) == Cardinality({i \in Positions(processed_df) : InYear(i, y)})
C7_YearTrendAscending ==
    "popularity_by_year" \in computed =>
        LET res == popularity_by_year
        IN  /\ {res[i].release_year : i \in 1..Len(res)} = Years
            /\ Len(res) = Cardinality(Years)
            /\ \A i \in 1..Len(res) :
                   IsMeanOf(res[i].track_popularity,
                            YearSum(res[i].release_year), YearCount(res[i].release_year))
            /\ \A i, j \in 1..Len(res) :
                   i < j => res[i].release_year < res[j].release_year

C7_Witness ==
    /\ "popularity_by_year" \in computed
    /\ Len(popularity_by_year) = 2
    /\ MeanLess(popularity_by_year[1].track_popularity,
                popularity_by_year[2].track_popularity)

\* C9: the four views only read the frame: after any sequence of view
\* computations the frame is the freshly derived one, with the genre list of
\* each record still the unsplit text, and each view computed so far is what
\* that view gives on the freshly derived frame.
C9_ViewsAreReadOnly ==
    pc = "ready" =>
        LET fresh == load_and_preprocess_data(file).df
        IN  /\ processed_df = fresh
            /\ \A i \in Positions(processed_df) :
                   LET text == file[processed_df[i].index + 1].artist_genres
                   IN  processed_df[i].artist_genres.v =
                           IF MissingText(text) THEN <<"unknown">> ELSE text
            /\ "top_artists" \in computed =>
                   top_artists_data = get_top_artists(fresh, n_arg, quicksort_ties)
            /\ "genre_popularity" \in computed =>
                   /\ genre_popularity = get_popularity_by_genre(fresh, quicksort_ties)
                   /\ genre_popularity_data = head(genre_popularity, TopGenresN)
            /\ "correlation" \in computed =>
                   correlation_data = get_correlation_matrix(fresh)
            /\ "popularity_by_year" \in computed =>
                   popularity_by_year = PopularityByYear(fresh)

C9_Witness ==
    /\ computed = {"top_artists", "genre_popularity", "correlation", "popularity_by_year"}
    /\ Len(processed_df) = 2
    /\ \E i \in 1..2 : processed_df[i].artist_genres.v = PopRock
====
